---- MODULE Spec2Model ----
(***************************************************************************)
(* ARMKinetisDebug (testjig/production/arm_kinetis_debug.cpp): the         *)
(* sequencing logic of startup(), detect(), resetHalt(), peripheralInit()  *)
(* and flashMassErase(), run by one synchronous caller.  Every call of a   *)
(* transport primitive (apRead, apWrite, apReadPoll, memStore,             *)
(* memStoreAndVerify, initMemPort) is one step; its outcome is chosen by   *)
(* the target.  Bit fields (Status, Control, CSW) are sets of bit names,   *)
(* so that a | b is the union and a & b the intersection.                  *)
(***************************************************************************)
EXTENDS Integers, Sequences, FiniteSets, TLC

\* ---------------------------------------------------------------- constants

\* line 41: the identity of the supported MDM-AP peripheral, 0x001C0000
MDM_IDR_SIGNATURE == 1835008

\* line 95: unsigned haltRetries = 200
HALT_RETRIES == 200

\* A 32-bit word of the data register is the pair <<high half, low half>> of
\* its 16-bit halves.
\* line 104: the halt-request / debug-key pattern 0xA05F0003
DHCSR_HALT_REQUEST == <<41055, 3>>

\* line 109: the halted-status bit of DHCSR is bit 17, (1 << 17)
DHCSR_S_HALT_BIT == 17

\* bit n of the word w
Bit(w, n) == IF n >= 16 THEN (w[1] \div (2 ^ (n - 16))) % 2 = 1 ELSE (w[2] \div (2 ^ n)) % 2 = 1

NoWord == <<0, 0>>

\* line 52: const unsigned resetRetries = 2000
resetRetries == 2000

\* line 177: the retry ceiling of the erase-complete poll
ERASE_RETRIES == 10000

\* line 131: the value stored to SCGC5, 0x00043F82
SCGC5_VALUE == 278402

\* lines 137, 139: the two RAM test patterns 0x31415927 and 0x76543210
RAM_PATTERN_1 == 826366247

RAM_PATTERN_2 == 1985229328

\* the bits of REG_MDM_STATUS the code names (lines 58, 73, 152, 156, 160)
StatusBits == {"SYS_NRESET", "FLASH_READY", "SYS_SECURITY", "FLASH_ERASE_ACK", "MASS_ERASE_ENABLE"}

\* the bits of REG_MDM_CONTROL the code names (lines 56, 62, 166)
ControlBits == {"CORE_HOLD_RESET", "SYS_RESET_REQ", "MASS_ERASE"}

\* line 79: CSW_DBGSWENABLE | CSW_MASTER_DEBUG | CSW_HPROT | CSW_32BIT | CSW_ADDRINC_OFF
CSW_VALUE == {"CSW_DBGSWENABLE", "CSW_MASTER_DEBUG", "CSW_HPROT", "CSW_32BIT", "CSW_ADDRINC_OFF"}

\* line 133: REG_SIM_SCGC6_FTM0 | REG_SIM_SCGC6_FTM1 | REG_SIM_SCGC6_FTFL
SCGC6_VALUE == {"REG_SIM_SCGC6_FTM0", "REG_SIM_SCGC6_FTM1", "REG_SIM_SCGC6_FTFL"}

\* the log levels the code uses (lines 42, 99, 120)
LogLevels == {"LOG_NONE", "LOG_ERROR", "LOG_NORMAL"}

\* values the target can return for the identity register
IdrValues == {0, MDM_IDR_SIGNATURE, MDM_IDR_SIGNATURE + 1}

\* values the data register can hold: DHCSR read-backs, and what the
\* uninitialized local dhcsr (line 97) can contain
DhcsrValues == {<<0, 3>>, <<1, 3>>, <<2, 3>>, <<3, 3>>}

\* the operations a caller can invoke
Operations == {"startup", "detect", "resetHalt", "peripheralInit", "flashMassErase"}

\* ---------------------------------------------------------------- messages

MSG_UNSUPPORTED == "ARMKinetisDebug: Didn't find a supported MDM-AP peripheral"

MSG_HALT_OK == "CPU reset & halt successful. Now in debug mode."

MSG_HALT_FAILED == "ARMKinetisDebug: Failed to put CPU in debug halt state. (DHCSR: %08x)"

MSG_NOT_READY_BEFORE == "FLASH: Flash controller not ready before mass erase"

MSG_IN_PROGRESS == "FLASH: Mass erase already in progress"

MSG_DISABLED == "FLASH: Mass erase is disabled!"

MSG_BEGINNING == "FLASH: Beginning mass erase operation"

MSG_BEGIN_TIMEOUT == "FLASH: Timed out waiting for mass erase to begin"

MSG_COMPLETE_TIMEOUT == "FLASH: Timed out waiting for mass erase to complete"

MSG_NOT_READY_AFTER == "FLASH: Flash controller not ready after mass erase"

MSG_ERASE_COMPLETE == "FLASH: Mass erase complete"

\* ---------------------------------------------------------------- state

VARIABLES
    pc,             \* position of the control flow; "idle" between invocations
    top,            \* the operation the caller invoked ("none" before the first)
    ret,            \* per function: "none", "true" or "false", its return value
    logLevel,       \* the process-wide log level
    entryLogLevel,  \* the log level when the invocation began
    idr,            \* detect(): uint32_t idr
    status,         \* resetHalt(), flashMassErase(): uint32_t status
    control,        \* flashMassErase(): uint32_t control
    haltRetries,    \* resetHalt(): unsigned haltRetries
    savedLogLevel,  \* resetHalt(): LogLevel savedLogLevel
    dhcsr,          \* resetHalt(): uint32_t dhcsr
    dhcsrRead,      \* whether dhcsr holds a value read in this invocation
    attempts,       \* halt-race attempts begun in this invocation
    lastAttempt,    \* the data-register accesses of the latest attempt
    raceFailures,   \* whether a data-register access of the race has failed
    initMemPortCalls, \* calls of initMemPort() in this invocation
    trace,          \* the accesses issued in this invocation, the race's excepted
    logs            \* the log() calls of this invocation

vars == <<pc, top, ret, logLevel, entryLogLevel, idr, status, control, haltRetries,
          savedLogLevel, dhcsr, dhcsrRead, attempts, lastAttempt, raceFailures,
          initMemPortCalls, trace, logs>>

locals == <<idr, status, control, haltRetries, savedLogLevel, dhcsr, dhcsrRead>>

raceHistory == <<attempts, lastAttempt, raceFailures, initMemPortCalls>>

NoAttempt == [wrote |-> FALSE, wok |-> FALSE, wval |-> NoWord, read |-> FALSE, rok |-> FALSE, rval |-> NoWord]

NoReturns == [f \in Operations |-> "none"]

\* one access: the function and phase issuing it, the primitive, the register,
\* the value written (a bit set or a number; for a poll its mask and its retry
\* count), the expected value of a poll, and how it ended
Access(fn, phase, kind, reg, bits, num, out) ==
    [fn |-> fn, phase |-> phase, kind |-> kind, reg |-> reg, bits |-> bits, num |-> num,
     expect |-> {}, out |-> out, ok |-> (out = "ok")]

PollAccess(fn, phase, reg, mask, expected, retries, out) ==
    [Access(fn, phase, "apReadPoll", reg, mask, retries, out) EXCEPT !.expect = expected]

LogCall(fn, level, msg, arg) == [fn |-> fn, level |-> level, msg |-> msg, arg |-> arg]

Bool(b) == IF b THEN "true" ELSE "false"

\* first position of each function
Entry(f) ==
    CASE f = "startup" -> "detect_read"
      [] f = "detect" -> "detect_read"
      [] f = "resetHalt" -> "rh_hold"
      [] f = "peripheralInit" -> "pi_scgc5"
      [] f = "flashMassErase" -> "fme_status"

Init ==
    /\ pc = "idle"
    /\ top = "none"
    /\ ret = NoReturns
    /\ logLevel \in LogLevels
    /\ entryLogLevel = logLevel
    /\ idr = 0
    /\ status = {}
    /\ control = {}
    /\ haltRetries = 0
    /\ savedLogLevel = logLevel
    /\ dhcsr = NoWord
    /\ dhcsrRead = FALSE
    /\ attempts = 0
    /\ lastAttempt = NoAttempt
    /\ raceFailures = FALSE
    /\ initMemPortCalls = 0
    /\ trace = <<>>
    /\ logs = <<>>

\* ---------------------------------------------------------------- startup

\* StartupAfter with & in place of &&: every function runs, the last decides
StartupAfterEager(fn, r) ==
    CASE fn = "detect" -> [pc |-> Entry("resetHalt"), done |-> FALSE, result |-> r]
      [] fn = "resetHalt" -> [pc |-> Entry("peripheralInit"), done |-> FALSE, result |-> r]
      [] fn = "peripheralInit" -> [pc |-> "idle", done |-> TRUE, result |-> r]

\* line 32: detect() && resetHalt() && peripheralInit(); what follows the
\* return of fn with result r inside startup(): the next position, or the
\* result of startup()
StartupAfter(fn, r) ==
    IF ~r THEN [pc |-> "idle", done |-> TRUE, result |-> FALSE]
    ELSE CASE fn = "detect" -> [pc |-> Entry("resetHalt"), done |-> FALSE, result |-> TRUE]
           [] fn = "resetHalt" -> [pc |-> Entry("peripheralInit"), done |-> FALSE, result |-> TRUE]
           [] fn = "peripheralInit" -> [pc |-> "idle", done |-> TRUE, result |-> TRUE]

\* fn returns r: to the caller, or to startup() which goes on or returns
Return(fn, r) ==
    IF top = "startup"
    THEN LET n == StartupAfter(fn, r) IN
         /\ pc' = n.pc
         /\ ret' = IF n.done
                   THEN [ret EXCEPT ![fn] = Bool(r), !["startup"] = Bool(n.result)]
                   ELSE [ret EXCEPT ![fn] = Bool(r)]
    ELSE /\ pc' = "idle"
         /\ ret' = [ret EXCEPT ![fn] = Bool(r)]

\* OrReturnFalse with the result of the primitive ignored
OrReturnFalseUnchecked(fn, ok, nxt) ==
    pc' = nxt /\ UNCHANGED ret

\* "if (!primitive(...)) return false;": go on to nxt, or return failure
OrReturnFalse(fn, ok, nxt) ==
    IF ok THEN pc' = nxt /\ UNCHANGED ret ELSE Return(fn, FALSE)

\* the caller invokes one operation; locals are those of a fresh frame: idr,
\* status and control are assigned by a read or poll before the code reads
\* them, so their initial value is never observed; dhcsr, which line 124 can
\* read unassigned, gets its indeterminate value at its declaration
\* (resetHalt_muteLog)
Call ==
    /\ pc = "idle"
    /\ \E f \in Operations :
        /\ top' = f
        /\ pc' = Entry(f)
    /\ ret' = NoReturns
    /\ entryLogLevel' = logLevel
    /\ idr' = 0
    /\ status' = {}
    /\ control' = {}
    /\ haltRetries' = 0
    /\ savedLogLevel' = logLevel
    /\ dhcsr' = NoWord
    /\ dhcsrRead' = FALSE
    /\ attempts' = 0
    /\ lastAttempt' = NoAttempt
    /\ raceFailures' = FALSE
    /\ initMemPortCalls' = 0
    /\ trace' = <<>>
    /\ logs' = <<>>
    /\ UNCHANGED logLevel

\* ---------------------------------------------------------------- detect

\* IsSupported comparing the upper half of the identity only
IsSupportedUpperHalf(v) == v \div 65536 = MDM_IDR_SIGNATURE \div 65536

\* line 41: idr != 0x001C0000 is the unsupported case
IsSupported(v) == v = MDM_IDR_SIGNATURE

\* lines 39-46
detect ==
    /\ pc = "detect_read"
    /\ \E ok \in BOOLEAN, v \in IdrValues :
        /\ trace' = Append(trace, Access("detect", 0, "apRead", "REG_MDM_IDR", {}, 0,
                                         IF ok THEN "ok" ELSE "transport"))
        /\ idr' = IF ok THEN v ELSE idr
        /\ IF ~ok
           THEN /\ Return("detect", FALSE)
                /\ UNCHANGED logs
           ELSE IF ~IsSupported(v)
           THEN /\ logs' = Append(logs, LogCall("detect", "LOG_ERROR", MSG_UNSUPPORTED, NoWord))
                /\ Return("detect", FALSE)
           ELSE /\ Return("detect", TRUE)
                /\ UNCHANGED logs
    /\ UNCHANGED <<top, logLevel, entryLogLevel, status, control, haltRetries, savedLogLevel,
                   dhcsr, dhcsrRead, raceHistory>>

\* ---------------------------------------------------------------- primitives

\* the expected value -1 of apReadPoll: every bit set
ALL_ONES == StatusBits \cup ControlBits

\* apReadPoll compares the masked value read with the masked expected value
PollMatches(v, mask, expected) == (v \cap mask) = (expected \cap mask)

\* apReadPoll(reg, data, mask, expected, retries): it succeeds on the first
\* value that matches and leaves it in data; after the retries it fails with
\* the last value read; a read that fails ends it, data keeping cur
ApReadPoll(values, cur, mask, expected) ==
    {[out |-> "ok", v |-> v] : v \in {x \in values : PollMatches(x, mask, expected)}}
    \cup {[out |-> "timeout", v |-> v] : v \in {x \in values : ~PollMatches(x, mask, expected)}}
    \cup {[out |-> "transport", v |-> cur]}

\* "if (!apWrite(reg, bits)) return false;" of function fn
ApWriteStep(fn, phase, reg, bits, nxt) ==
    \E ok \in BOOLEAN :
        /\ trace' = Append(trace, Access(fn, phase, "apWrite", reg, bits, 0,
                                         IF ok THEN "ok" ELSE "transport"))
        /\ OrReturnFalse(fn, ok, nxt)

\* "if (!apReadPoll(REG_MDM_STATUS, status, mask, expected, retries)) return false;"
StatusPollStep(fn, phase, mask, expected, retries, nxt) ==
    \E r \in ApReadPoll(SUBSET StatusBits, status, mask, expected) :
        /\ trace' = Append(trace, PollAccess(fn, phase, "REG_MDM_STATUS", mask, expected,
                                             retries, r.out))
        /\ status' = r.v
        /\ OrReturnFalse(fn, r.out = "ok", nxt)

\* ---------------------------------------------------------------- resetHalt

resetHaltFrame == <<top, logLevel, entryLogLevel, idr, control, haltRetries, savedLogLevel,
                    dhcsr, dhcsrRead, raceHistory, logs>>

\* lines 56-57
resetHalt_holdReset ==
    /\ pc = "rh_hold"
    /\ ApWriteStep("resetHalt", 1, "REG_MDM_CONTROL", {"CORE_HOLD_RESET"}, "rh_pollAssert")
    /\ UNCHANGED <<resetHaltFrame, status>>

\* lines 58-59
resetHalt_pollAssert ==
    /\ pc = "rh_pollAssert"
    /\ StatusPollStep("resetHalt", 1, {"SYS_NRESET"}, ALL_ONES, resetRetries, "rh_reset")
    /\ UNCHANGED resetHaltFrame

\* lines 62-63
resetHalt_sysReset ==
    /\ pc = "rh_reset"
    /\ ApWriteStep("resetHalt", 2, "REG_MDM_CONTROL", {"SYS_RESET_REQ"}, "rh_pollDeassert")
    /\ UNCHANGED <<resetHaltFrame, status>>

\* resetHalt_pollDeassert with the system reset requested again after the poll
resetHalt_pollDeassertThenReset ==
    /\ pc = "rh_pollDeassert"
    /\ \E r \in ApReadPoll(SUBSET StatusBits, status, {"SYS_NRESET"}, {}) :
        /\ trace' = trace \o <<PollAccess("resetHalt", 2, "REG_MDM_STATUS",
                                           {"SYS_NRESET"}, {}, 0, r.out),
                                Access("resetHalt", 2, "apWrite", "REG_MDM_CONTROL",
                                       {"SYS_RESET_REQ"}, 0, "ok")>>
        /\ status' = r.v
        /\ OrReturnFalse("resetHalt", r.out = "ok", "rh_release")
    /\ UNCHANGED resetHaltFrame

\* lines 64-65 (the default retry count of apReadPoll, written 0 here)
resetHalt_pollDeassert ==
    /\ pc = "rh_pollDeassert"
    /\ StatusPollStep("resetHalt", 2, {"SYS_NRESET"}, {}, 0, "rh_release")
    /\ UNCHANGED resetHaltFrame

\* lines 66-67
resetHalt_release ==
    /\ pc = "rh_release"
    /\ ApWriteStep("resetHalt", 2, "REG_MDM_CONTROL", {}, "rh_pollSafe")
    /\ UNCHANGED <<resetHaltFrame, status>>

\* resetHalt_pollSafe without the security bit in the mask
resetHalt_pollSafeNoSecurity ==
    /\ pc = "rh_pollSafe"
    /\ StatusPollStep("resetHalt", 3, {"SYS_NRESET", "FLASH_READY"},
                      {"SYS_NRESET", "FLASH_READY"}, resetRetries, "rh_csw")
    /\ UNCHANGED resetHaltFrame

\* lines 72-76
resetHalt_pollSafe ==
    /\ pc = "rh_pollSafe"
    /\ StatusPollStep("resetHalt", 3, {"SYS_NRESET", "FLASH_READY", "SYS_SECURITY"},
                      {"SYS_NRESET", "FLASH_READY"}, resetRetries, "rh_csw")
    /\ UNCHANGED resetHaltFrame

\* lines 79-80
resetHalt_writeCSW ==
    /\ pc = "rh_csw"
    /\ ApWriteStep("resetHalt", 4, "MEM_CSW", CSW_VALUE, "rh_tar")
    /\ UNCHANGED <<resetHaltFrame, status>>

\* lines 83-84
resetHalt_writeTAR ==
    /\ pc = "rh_tar"
    /\ ApWriteStep("resetHalt", 4, "MEM_TAR", {"REG_SCB_DHCSR"}, "rh_mute")
    /\ UNCHANGED <<resetHaltFrame, status>>

\* lines 95-99: dhcsr is declared without a value; setLogLevel(LOG_NONE,
\* savedLogLevel) stores the level in effect and lowers it
resetHalt_muteLog ==
    /\ pc = "rh_mute"
    /\ haltRetries' = HALT_RETRIES
    /\ dhcsr' \in DhcsrValues
    /\ savedLogLevel' = logLevel
    /\ logLevel' = "LOG_NONE"
    /\ pc' = "rh_loop"
    /\ UNCHANGED <<top, ret, entryLogLevel, idr, status, control, dhcsrRead, raceHistory,
                   trace, logs>>

\* resetHalt_haltWrite with the decrement after the write, skipped by continue
resetHalt_haltWriteDecrementLate ==
    /\ pc = "rh_loop"
    /\ haltRetries # 0
    /\ attempts' = attempts + 1
    /\ \E ok \in BOOLEAN :
        /\ haltRetries' = IF ok THEN haltRetries - 1 ELSE haltRetries
        /\ lastAttempt' = [NoAttempt EXCEPT !.wrote = TRUE, !.wok = ok,
                                            !.wval = DHCSR_HALT_REQUEST]
        /\ raceFailures' = (raceFailures \/ ~ok)
        /\ pc' = IF ok THEN "rh_read" ELSE "rh_loop"
    /\ UNCHANGED <<top, ret, logLevel, entryLogLevel, idr, status, control, savedLogLevel,
                   dhcsr, dhcsrRead, initMemPortCalls, trace, logs>>

\* lines 101-105: one more attempt (haltRetries is not 0, the decrement does
\* not wrap); a failed write ends the attempt (continue)
resetHalt_haltWrite ==
    /\ pc = "rh_loop"
    /\ haltRetries # 0
    /\ haltRetries' = haltRetries - 1
    /\ attempts' = attempts + 1
    /\ \E ok \in BOOLEAN :
        /\ lastAttempt' = [NoAttempt EXCEPT !.wrote = TRUE, !.wok = ok,
                                            !.wval = DHCSR_HALT_REQUEST]
        /\ raceFailures' = (raceFailures \/ ~ok)
        /\ pc' = IF ok THEN "rh_read" ELSE "rh_loop"
    /\ UNCHANGED <<top, ret, logLevel, entryLogLevel, idr, status, control, savedLogLevel,
                   dhcsr, dhcsrRead, initMemPortCalls, trace, logs>>

\* line 109: dhcsr & (1 << 17)
IsHalted(d) == Bit(d, DHCSR_S_HALT_BIT)

\* AfterHaltRead without the continue of a failed read: dhcsr is tested anyway
AfterHaltReadUnchecked(ok, d) ==
    IF IsHalted(d) THEN "rh_finish" ELSE "rh_loop"

\* lines 106-112: where the attempt goes after apRead(MEM_DRW, dhcsr) returned
\* ok with d in dhcsr: continue, or break
AfterHaltRead(ok, d) ==
    IF ~ok THEN "rh_loop"
    ELSE IF IsHalted(d) THEN "rh_finish"
    ELSE "rh_loop"

\* lines 106-112
resetHalt_haltRead ==
    /\ pc = "rh_read"
    /\ \E ok \in BOOLEAN, v \in DhcsrValues :
        /\ dhcsr' = IF ok THEN v ELSE dhcsr
        /\ dhcsrRead' = (dhcsrRead \/ ok)
        /\ lastAttempt' = [lastAttempt EXCEPT !.read = TRUE, !.rok = ok,
                                              !.rval = IF ok THEN v ELSE NoWord]
        /\ raceFailures' = (raceFailures \/ ~ok)
        /\ pc' = AfterHaltRead(ok, dhcsr')
    /\ UNCHANGED <<top, ret, logLevel, entryLogLevel, idr, status, control, haltRetries,
                   savedLogLevel, attempts, initMemPortCalls, trace, logs>>

\* resetHalt_loopExit returning failure from the exhausted loop directly
resetHalt_loopExitReturns ==
    /\ pc = "rh_loop"
    /\ haltRetries = 0
    /\ logs' = Append(logs, LogCall("resetHalt", "LOG_ERROR", MSG_HALT_FAILED, dhcsr))
    /\ logLevel' = savedLogLevel
    /\ Return("resetHalt", FALSE)
    /\ UNCHANGED <<top, entryLogLevel, locals, raceHistory, trace>>

\* line 101: while (haltRetries) ends
resetHalt_loopExit ==
    /\ pc = "rh_loop"
    /\ haltRetries = 0
    /\ pc' = "rh_finish"
    /\ UNCHANGED <<top, ret, logLevel, entryLogLevel, locals, raceHistory, trace, logs>>

\* line 119: if (haltRetries)
HaltSucceeded(n) == n # 0

\* RestoredLogLevel with a fixed level in place of the saved one
RestoredLogLevelFixed(saved) == "LOG_NORMAL"

\* line 117: setLogLevel(savedLogLevel)
RestoredLogLevel(saved) == saved

\* lines 116-125
resetHalt_finish ==
    /\ pc = "rh_finish"
    /\ initMemPortCalls' = initMemPortCalls + 1
    /\ trace' = Append(trace, Access("resetHalt", 5, "initMemPort", "", {}, 0, "ok"))
    /\ logLevel' = RestoredLogLevel(savedLogLevel)
    /\ IF HaltSucceeded(haltRetries)
       THEN /\ logs' = Append(logs, LogCall("resetHalt", "LOG_NORMAL", MSG_HALT_OK, NoWord))
            /\ Return("resetHalt", TRUE)
       ELSE /\ logs' = Append(logs, LogCall("resetHalt", "LOG_ERROR", MSG_HALT_FAILED, dhcsr))
            /\ Return("resetHalt", FALSE)
    /\ UNCHANGED <<top, entryLogLevel, locals, attempts, lastAttempt, raceFailures>>

resetHalt ==
    \/ resetHalt_holdReset
    \/ resetHalt_pollAssert
    \/ resetHalt_sysReset
    \/ resetHalt_pollDeassert
    \/ resetHalt_release
    \/ resetHalt_pollSafe
    \/ resetHalt_writeCSW
    \/ resetHalt_writeTAR
    \/ resetHalt_muteLog
    \/ resetHalt_haltWrite
    \/ resetHalt_haltRead
    \/ resetHalt_loopExit
    \/ resetHalt_finish

\* ---------------------------------------------------------------- peripheralInit

peripheralInitFrame == <<top, logLevel, entryLogLevel, locals, raceHistory, logs>>

\* "if (!memStore(reg, value)) return false;"
MemStoreStep(reg, bits, num, nxt) ==
    \E ok \in BOOLEAN :
        /\ trace' = Append(trace, Access("peripheralInit", 0, "memStore", reg, bits, num,
                                         IF ok THEN "ok" ELSE "transport"))
        /\ OrReturnFalse("peripheralInit", ok, nxt)

\* lines 131-132
peripheralInit_SCGC5 ==
    /\ pc = "pi_scgc5"
    /\ MemStoreStep("REG_SIM_SCGC5", {}, SCGC5_VALUE, "pi_scgc6")
    /\ UNCHANGED peripheralInitFrame

\* lines 133-134
peripheralInit_SCGC6 ==
    /\ pc = "pi_scgc6"
    /\ MemStoreStep("REG_SIM_SCGC6", SCGC6_VALUE, 0, "pi_verify1")
    /\ UNCHANGED peripheralInitFrame

\* memStoreAndVerify(addr, data): the store or the read-back can fail, or the
\* value read back can differ from the one written
MemStoreAndVerifyOutcomes == {"ok", "mismatch", "transport"}

\* lines 137-138
peripheralInit_verify1 ==
    /\ pc = "pi_verify1"
    /\ \E out \in MemStoreAndVerifyOutcomes :
        /\ trace' = Append(trace, Access("peripheralInit", 0, "memStoreAndVerify",
                                         "0x20000000", {}, RAM_PATTERN_1, out))
        /\ OrReturnFalse("peripheralInit", out = "ok", "pi_verify2")
    /\ UNCHANGED peripheralInitFrame

\* peripheralInit_verify2 with the result of the second round trip dropped
peripheralInit_verify2Unchecked ==
    /\ pc = "pi_verify2"
    /\ \E out \in MemStoreAndVerifyOutcomes :
        /\ trace' = Append(trace, Access("peripheralInit", 0, "memStoreAndVerify",
                                         "0x20000000", {}, RAM_PATTERN_2, out))
        /\ Return("peripheralInit", TRUE)
    /\ UNCHANGED peripheralInitFrame

\* lines 139-142
peripheralInit_verify2 ==
    /\ pc = "pi_verify2"
    /\ \E out \in MemStoreAndVerifyOutcomes :
        /\ trace' = Append(trace, Access("peripheralInit", 0, "memStoreAndVerify",
                                         "0x20000000", {}, RAM_PATTERN_2, out))
        /\ Return("peripheralInit", out = "ok")
    /\ UNCHANGED peripheralInitFrame

peripheralInit ==
    \/ peripheralInit_SCGC5
    \/ peripheralInit_SCGC6
    \/ peripheralInit_verify1
    \/ peripheralInit_verify2

\* ---------------------------------------------------------------- flashMassErase

flashMassEraseFrame == <<top, logLevel, entryLogLevel, idr, haltRetries, savedLogLevel, dhcsr,
                         dhcsrRead, raceHistory>>

\* EraseRefusal with the erase-acknowledge test first
EraseRefusalAckFirst(s) ==
    IF "FLASH_ERASE_ACK" \in s THEN MSG_IN_PROGRESS
    ELSE IF "FLASH_READY" \notin s THEN MSG_NOT_READY_BEFORE
    ELSE IF "MASS_ERASE_ENABLE" \notin s THEN MSG_DISABLED
    ELSE ""

\* lines 152-163: the diagnostic of the precondition that refuses the erase
\* for the Status value s, "" when the erase may proceed
EraseRefusal(s) ==
    IF "FLASH_READY" \notin s THEN MSG_NOT_READY_BEFORE
    ELSE IF "FLASH_ERASE_ACK" \in s THEN MSG_IN_PROGRESS
    ELSE IF "MASS_ERASE_ENABLE" \notin s THEN MSG_DISABLED
    ELSE ""

\* lines 150-165
flashMassErase_checkStatus ==
    /\ pc = "fme_status"
    /\ \E ok \in BOOLEAN, v \in SUBSET StatusBits :
        /\ trace' = Append(trace, Access("flashMassErase", 1, "apRead", "REG_MDM_STATUS", {}, 0,
                                         IF ok THEN "ok" ELSE "transport"))
        /\ status' = IF ok THEN v ELSE status
        /\ IF ~ok
           THEN /\ Return("flashMassErase", FALSE)
                /\ UNCHANGED logs
           ELSE IF EraseRefusal(v) # ""
           THEN /\ logs' = Append(logs, LogCall("flashMassErase", "LOG_ERROR",
                                                EraseRefusal(v), NoWord))
                /\ Return("flashMassErase", FALSE)
           ELSE /\ logs' = Append(logs, LogCall("flashMassErase", "LOG_NORMAL",
                                                MSG_BEGINNING, NoWord))
                /\ pc' = "fme_erase"
                /\ UNCHANGED ret
    /\ UNCHANGED <<flashMassEraseFrame, control>>

\* flashMassErase_request with hold-reset and mass-erase written one after the other
flashMassErase_requestSplit ==
    /\ pc = "fme_erase"
    /\ \E ok \in BOOLEAN :
        /\ trace' = trace \o <<Access("flashMassErase", 4, "apWrite", "REG_MDM_CONTROL",
                                       {"CORE_HOLD_RESET"}, 0, "ok"),
                                Access("flashMassErase", 4, "apWrite", "REG_MDM_CONTROL",
                                       {"MASS_ERASE"}, 0, IF ok THEN "ok" ELSE "transport")>>
        /\ OrReturnFalse("flashMassErase", ok, "fme_pollAck")
    /\ UNCHANGED <<flashMassEraseFrame, status, control, logs>>

\* lines 166-167
flashMassErase_request ==
    /\ pc = "fme_erase"
    /\ ApWriteStep("flashMassErase", 4, "REG_MDM_CONTROL", {"CORE_HOLD_RESET", "MASS_ERASE"},
                   "fme_pollAck")
    /\ UNCHANGED <<flashMassEraseFrame, status, control, logs>>

\* flashMassErase_pollAck without the return after the diagnostic
flashMassErase_pollAckNoReturn ==
    /\ pc = "fme_pollAck"
    /\ \E r \in ApReadPoll(SUBSET StatusBits, status, {"FLASH_ERASE_ACK"}, ALL_ONES) :
        /\ trace' = Append(trace, PollAccess("flashMassErase", 5, "REG_MDM_STATUS",
                                             {"FLASH_ERASE_ACK"}, ALL_ONES, 0, r.out))
        /\ status' = r.v
        /\ logs' = IF r.out = "ok" THEN logs
                   ELSE Append(logs, LogCall("flashMassErase", "LOG_ERROR",
                                             MSG_BEGIN_TIMEOUT, NoWord))
        /\ pc' = "fme_pollDone"
        /\ UNCHANGED ret
    /\ UNCHANGED <<flashMassEraseFrame, control>>

\* lines 170-173 (the default retry count of apReadPoll, written 0 here)
flashMassErase_pollAck ==
    /\ pc = "fme_pollAck"
    /\ \E r \in ApReadPoll(SUBSET StatusBits, status, {"FLASH_ERASE_ACK"}, ALL_ONES) :
        /\ trace' = Append(trace, PollAccess("flashMassErase", 5, "REG_MDM_STATUS",
                                             {"FLASH_ERASE_ACK"}, ALL_ONES, 0, r.out))
        /\ status' = r.v
        /\ IF r.out = "ok"
           THEN /\ pc' = "fme_pollDone"
                /\ UNCHANGED <<ret, logs>>
           ELSE /\ logs' = Append(logs, LogCall("flashMassErase", "LOG_ERROR",
                                                MSG_BEGIN_TIMEOUT, NoWord))
                /\ Return("flashMassErase", FALSE)
    /\ UNCHANGED <<flashMassEraseFrame, control>>

\* flashMassErase_pollDone with the diagnostic of the erase-begin poll
flashMassErase_pollDoneBeginMessage ==
    /\ pc = "fme_pollDone"
    /\ \E r \in ApReadPoll(SUBSET ControlBits, control, {"MASS_ERASE"}, {}) :
        /\ trace' = Append(trace, PollAccess("flashMassErase", 6, "REG_MDM_CONTROL",
                                             {"MASS_ERASE"}, {}, ERASE_RETRIES, r.out))
        /\ control' = r.v
        /\ IF r.out = "ok"
           THEN /\ pc' = "fme_recheck"
                /\ UNCHANGED <<ret, logs>>
           ELSE /\ logs' = Append(logs, LogCall("flashMassErase", "LOG_ERROR",
                                                MSG_BEGIN_TIMEOUT, NoWord))
                /\ Return("flashMassErase", FALSE)
    /\ UNCHANGED <<flashMassEraseFrame, status>>

\* lines 176-180
flashMassErase_pollDone ==
    /\ pc = "fme_pollDone"
    /\ \E r \in ApReadPoll(SUBSET ControlBits, control, {"MASS_ERASE"}, {}) :
        /\ trace' = Append(trace, PollAccess("flashMassErase", 6, "REG_MDM_CONTROL",
                                             {"MASS_ERASE"}, {}, ERASE_RETRIES, r.out))
        /\ control' = r.v
        /\ IF r.out = "ok"
           THEN /\ pc' = "fme_recheck"
                /\ UNCHANGED <<ret, logs>>
           ELSE /\ logs' = Append(logs, LogCall("flashMassErase", "LOG_ERROR",
                                                MSG_COMPLETE_TIMEOUT, NoWord))
                /\ Return("flashMassErase", FALSE)
    /\ UNCHANGED <<flashMassEraseFrame, status>>

\* flashMassErase_recheck without the test of flash-ready
flashMassErase_recheckUnchecked ==
    /\ pc = "fme_recheck"
    /\ \E ok \in BOOLEAN, v \in SUBSET StatusBits :
        /\ trace' = Append(trace, Access("flashMassErase", 7, "apRead", "REG_MDM_STATUS", {}, 0,
                                         IF ok THEN "ok" ELSE "transport"))
        /\ status' = IF ok THEN v ELSE status
        /\ IF ~ok
           THEN /\ Return("flashMassErase", FALSE)
                /\ UNCHANGED logs
           ELSE /\ logs' = Append(logs, LogCall("flashMassErase", "LOG_NORMAL",
                                                MSG_ERASE_COMPLETE, NoWord))
                /\ Return("flashMassErase", TRUE)
    /\ UNCHANGED <<flashMassEraseFrame, control>>

\* flashMassErase_recheck releasing the reset request once the erase is complete
flashMassErase_recheckReleases ==
    /\ pc = "fme_recheck"
    /\ \E ok \in BOOLEAN, v \in SUBSET StatusBits :
        /\ status' = IF ok THEN v ELSE status
        /\ IF ~ok
           THEN /\ trace' = Append(trace, Access("flashMassErase", 7, "apRead",
                                                 "REG_MDM_STATUS", {}, 0, "transport"))
                /\ Return("flashMassErase", FALSE)
                /\ UNCHANGED logs
           ELSE IF "FLASH_READY" \notin v
           THEN /\ trace' = Append(trace, Access("flashMassErase", 7, "apRead",
                                                 "REG_MDM_STATUS", {}, 0, "ok"))
                /\ logs' = Append(logs, LogCall("flashMassErase", "LOG_ERROR",
                                                MSG_NOT_READY_AFTER, NoWord))
                /\ Return("flashMassErase", FALSE)
           ELSE /\ trace' = trace \o <<Access("flashMassErase", 7, "apRead",
                                               "REG_MDM_STATUS", {}, 0, "ok"),
                                        Access("flashMassErase", 7, "apWrite",
                                               "REG_MDM_CONTROL", {}, 0, "ok")>>
                /\ logs' = Append(logs, LogCall("flashMassErase", "LOG_NORMAL",
                                                MSG_ERASE_COMPLETE, NoWord))
                /\ Return("flashMassErase", TRUE)
    /\ UNCHANGED <<flashMassEraseFrame, control>>

\* lines 183-191
flashMassErase_recheck ==
    /\ pc = "fme_recheck"
    /\ \E ok \in BOOLEAN, v \in SUBSET StatusBits :
        /\ trace' = Append(trace, Access("flashMassErase", 7, "apRead", "REG_MDM_STATUS", {}, 0,
                                         IF ok THEN "ok" ELSE "transport"))
        /\ status' = IF ok THEN v ELSE status
        /\ IF ~ok
           THEN /\ Return("flashMassErase", FALSE)
                /\ UNCHANGED logs
           ELSE IF "FLASH_READY" \notin v
           THEN /\ logs' = Append(logs, LogCall("flashMassErase", "LOG_ERROR",
                                                MSG_NOT_READY_AFTER, NoWord))
                /\ Return("flashMassErase", FALSE)
           ELSE /\ logs' = Append(logs, LogCall("flashMassErase", "LOG_NORMAL",
                                                MSG_ERASE_COMPLETE, NoWord))
                /\ Return("flashMassErase", TRUE)
    /\ UNCHANGED <<flashMassEraseFrame, control>>

flashMassErase ==
    \/ flashMassErase_checkStatus
    \/ flashMassErase_request
    \/ flashMassErase_pollAck
    \/ flashMassErase_pollDone
    \/ flashMassErase_recheck

\* ---------------------------------------------------------------- specification

Next ==
    \/ Call
    \/ detect
    \/ resetHalt
    \/ peripheralInit
    \/ flashMassErase

Spec == Init /\ [][Next]_vars

\* the control flow is sequential and every primitive returns: a call in
\* progress takes its next step
FairSpec == Spec /\ WF_vars(detect \/ resetHalt \/ peripheralInit \/ flashMassErase)

\* ---------------------------------------------------------------- properties

\* the accesses function fn has issued in this invocation
AccessesOf(fn) == SelectSeq(trace, LAMBDA a : a.fn = fn)

\* the log() calls function fn has made in this invocation
LogsOf(fn) == SelectSeq(logs, LAMBDA l : l.fn = fn)

\* positions of the halt race of resetHalt()
RacePositions == {"rh_loop", "rh_read"}

ResetHaltPositions == {"rh_hold", "rh_pollAssert", "rh_reset", "rh_pollDeassert", "rh_release",
                       "rh_pollSafe", "rh_csw", "rh_tar", "rh_mute", "rh_loop", "rh_read",
                       "rh_finish"}

PeripheralInitPositions == {"pi_scgc5", "pi_scgc6", "pi_verify1", "pi_verify2"}

\* the order of the three functions inside startup()
StartupRank(fn) == CASE fn = "detect" -> 1 [] fn = "resetHalt" -> 2 [] fn = "peripheralInit" -> 3

\* C1: inside startup() the accesses come in the order detect, resetHalt,
\* peripheralInit; resetHalt() runs and accesses a register only after detect()
\* returned success, peripheralInit() runs and stores only after resetHalt()
\* returned success, and startup() returns success exactly when all three
\* returned success, failure as soon as one returned failure.
C1_StartupShortCircuit ==
    top = "startup" =>
        /\ \A i, j \in 1..Len(trace) :
              i < j => StartupRank(trace[i].fn) <= StartupRank(trace[j].fn)
        /\ (Len(AccessesOf("resetHalt")) > 0 \/ attempts > 0 \/ pc \in ResetHaltPositions)
              => ret["detect"] = "true"
        /\ (Len(AccessesOf("peripheralInit")) > 0 \/ pc \in PeripheralInitPositions)
              => (ret["detect"] = "true" /\ ret["resetHalt"] = "true")
        /\ (ret["startup"] # "none") = (pc = "idle")
        /\ (ret["startup"] = "true") =
              (ret["detect"] = "true" /\ ret["resetHalt"] = "true"
               /\ ret["peripheralInit"] = "true")
        /\ ret["startup"] = "false" =>
              \/ ret["detect"] = "false"
              \/ ret["resetHalt"] = "false"
              \/ ret["peripheralInit"] = "false"
        /\ pc = "idle" => ret["detect"] # "none"

\* startup() has returned failure because resetHalt() failed after detect()
\* succeeded, and peripheralInit() has not run
C1_Witness ==
    /\ top = "startup"
    /\ pc = "idle"
    /\ ret["detect"] = "true"
    /\ ret["resetHalt"] = "false"
    /\ ret["peripheralInit"] = "none"
    /\ ret["startup"] = "false"
    /\ Len(AccessesOf("peripheralInit")) = 0

\* C2: detect() issues exactly one access, a read of the identity register,
\* and no write; it returns success exactly when that read succeeded with the
\* value 0x001C0000 (1835008); for a value read that differs it returns
\* failure and logs the unsupported-peripheral error, and it logs nothing
\* otherwise.
C2_DetectSignature ==
    LET d == AccessesOf("detect") IN
    ret["detect"] # "none" =>
        /\ Len(d) = 1
        /\ d[1].kind = "apRead"
        /\ d[1].reg = "REG_MDM_IDR"
        /\ (ret["detect"] = "true") = (d[1].ok /\ idr = 1835008)
        /\ (d[1].ok /\ idr # 1835008) =>
              /\ ret["detect"] = "false"
              /\ LogsOf("detect") = <<LogCall("detect", "LOG_ERROR", MSG_UNSUPPORTED, NoWord)>>
        /\ (~d[1].ok \/ idr = 1835008) => LogsOf("detect") = <<>>
        /\ top = "detect" => (trace = d /\ pc = "idle")

\* detect() has read the identity 0x001C0001 and returned failure
C2_Witness ==
    /\ top = "detect"
    /\ ret["detect"] = "false"
    /\ Len(trace) = 1
    /\ trace[1].ok
    /\ idr = 1835009
    /\ Len(logs) = 1

\* the register accesses of phases 1 to 4 of resetHalt(), in order
\* (of a poll: the bits polled, and those of them that must read 1)
ResetHaltPlan ==
    << [phase |-> 1, kind |-> "apWrite", reg |-> "REG_MDM_CONTROL",
        bits |-> {"CORE_HOLD_RESET"}, must |-> {}],
       [phase |-> 1, kind |-> "apReadPoll", reg |-> "REG_MDM_STATUS",
        bits |-> {"SYS_NRESET"}, must |-> {"SYS_NRESET"}],
       [phase |-> 2, kind |-> "apWrite", reg |-> "REG_MDM_CONTROL",
        bits |-> {"SYS_RESET_REQ"}, must |-> {}],
       [phase |-> 2, kind |-> "apReadPoll", reg |-> "REG_MDM_STATUS",
        bits |-> {"SYS_NRESET"}, must |-> {}],
       [phase |-> 2, kind |-> "apWrite", reg |-> "REG_MDM_CONTROL",
        bits |-> {}, must |-> {}],
       [phase |-> 3, kind |-> "apReadPoll", reg |-> "REG_MDM_STATUS",
        bits |-> {"SYS_NRESET", "FLASH_READY", "SYS_SECURITY"},
        must |-> {"SYS_NRESET", "FLASH_READY"}],
       [phase |-> 4, kind |-> "apWrite", reg |-> "MEM_CSW",
        bits |-> CSW_VALUE, must |-> {}],
       [phase |-> 4, kind |-> "apWrite", reg |-> "MEM_TAR",
        bits |-> {"REG_SCB_DHCSR"}, must |-> {}] >>

\* the accesses resetHalt() has issued in its phases 1 to 4
ResetHaltSetup == SelectSeq(trace, LAMBDA a : a.fn = "resetHalt" /\ a.phase < 5)

\* C3: the accesses of phases 1 to 4 of resetHalt() are always a prefix of
\* write Control=hold-reset, poll Status, write Control=system-reset, poll
\* Status, write Control=0, poll Status, write CSW, write TAR, the first poll
\* waiting for the reset-line bit set and the second for it clear; an access is
\* issued only after every earlier one succeeded; when one fails resetHalt()
\* returns failure with no halt-race attempt and no initMemPort() call; the
\* halt race (phase 5) is reached only after all eight succeeded.
C3_ResetHaltPhaseOrder ==
    LET r == ResetHaltSetup IN
    /\ Len(r) <= Len(ResetHaltPlan)
    /\ \A i \in 1..Len(r) :
          /\ i <= Len(ResetHaltPlan)
          /\ [phase |-> r[i].phase, kind |-> r[i].kind, reg |-> r[i].reg, bits |-> r[i].bits,
              must |-> r[i].expect \cap r[i].bits] = ResetHaltPlan[i]
          /\ i < Len(r) => r[i].ok
    /\ (Len(r) > 0 /\ ~r[Len(r)].ok) =>
          /\ ret["resetHalt"] = "false"
          /\ attempts = 0
          /\ initMemPortCalls = 0
          /\ pc \notin ResetHaltPositions
    /\ (attempts > 0 \/ pc \in {"rh_mute", "rh_loop", "rh_read", "rh_finish"}
        \/ initMemPortCalls > 0) =>
          /\ Len(r) = Len(ResetHaltPlan)
          /\ \A i \in 1..Len(r) : r[i].ok

\* resetHalt() has returned failure from the safe-state poll of phase 3
C3_Witness ==
    /\ Len(ResetHaltSetup) = 6
    /\ ~ResetHaltSetup[6].ok
    /\ ret["resetHalt"] = "false"
    /\ attempts = 0

\* the latest halt-race attempt wrote the halt request, read the data register
\* back and saw bit 17 of the value set
LastAttemptSawHalt ==
    /\ lastAttempt.wrote
    /\ lastAttempt.wok
    /\ lastAttempt.wval = <<41055, 3>>
    /\ lastAttempt.read
    /\ lastAttempt.rok
    /\ (lastAttempt.rval[1] \div 2) % 2 = 1

\* C4: once resetHalt() has returned from the halt race, an attempt that
\* observed the halted bit, the 200th included, means it returned success, and
\* the halt-failure diagnostic is logged only when no attempt observed it.
C4_HaltObservedIsSuccess ==
    (ret["resetHalt"] # "none" /\ attempts > 0) =>
        /\ LastAttemptSawHalt => ret["resetHalt"] = "true"
        /\ (\E i \in 1..Len(logs) : logs[i].msg = MSG_HALT_FAILED) => ~LastAttemptSawHalt

\* C5: resetHalt() returns success only if the attempt that ended the race
\* wrote 0xA05F0003 to the data register successfully and then read back
\* successfully a value with bit 17 set.
C5_SuccessOnlyIfHaltObserved ==
    ret["resetHalt"] = "true" => LastAttemptSawHalt

\* resetHalt() has returned success on its fifth attempt, after earlier
\* attempts failed their write or read
C5_Witness ==
    /\ ret["resetHalt"] = "true"
    /\ attempts = 5
    /\ raceFailures
    /\ LastAttemptSawHalt

\* C6: initMemPort() is not called while resetHalt() is in the halt race, and
\* once resetHalt() has returned from the race it has been called exactly
\* once, after the last attempt, whether the halt was achieved or not.
C6_CleanupExactlyOnce ==
    /\ pc \in {"rh_mute", "rh_loop", "rh_read", "rh_finish"} => initMemPortCalls = 0
    /\ (ret["resetHalt"] # "none" /\ attempts > 0) =>
          /\ initMemPortCalls = 1
          /\ Len(SelectSeq(trace, LAMBDA a : a.kind = "initMemPort")) = 1
    /\ initMemPortCalls > 0 => (pc \notin ResetHaltPositions /\ ret["resetHalt"] # "none")
    /\ initMemPortCalls <= 1

\* resetHalt() has returned failure after 200 attempts, with the cleanup done
C6_Witness ==
    /\ ret["resetHalt"] = "false"
    /\ attempts = 200
    /\ ~LastAttemptSawHalt
    /\ initMemPortCalls = 1

\* C7: at every halt-race attempt the log level is LOG_NONE, and once
\* resetHalt() has returned, from the race or from a failure of phases 1 to 4,
\* the log level is the one in effect when it was called.
C7_LogLevelScoped ==
    /\ pc \in RacePositions => logLevel = "LOG_NONE"
    /\ ret["resetHalt"] # "none" => logLevel = entryLogLevel
    /\ pc \in ResetHaltPositions \ (RacePositions \cup {"rh_finish"}) => logLevel = entryLogLevel

\* resetHalt(), called at level LOG_ERROR, has returned from an exhausted race
C7_Witness ==
    /\ ret["resetHalt"] = "false"
    /\ attempts = 200
    /\ entryLogLevel = "LOG_ERROR"
    /\ logLevel = "LOG_ERROR"

\* an access of this invocation failed at the transport level
TransportFailed ==
    \/ raceFailures
    \/ \E i \in 1..Len(trace) : trace[i].out = "transport"

\* the control flow is about to issue a register read or write
WillAccess ==
    /\ pc \notin {"idle", "rh_mute", "rh_finish"}
    /\ pc = "rh_loop" => haltRetries # 0

\* C8 as stated: in every operation, the halt race included, after an access
\* failed at the transport level no further register access is issued and the
\* operation returns failure.
C8_NoAccessAfterFailure ==
    TransportFailed =>
        /\ ~WillAccess
        /\ pc = "idle" => ret[top] = "false"

\* C8 as amended: outside the halt race an access that failed at the transport
\* level is the last access of the invocation, and the function that issued it
\* and the operation invoked have returned failure; a failure in phases 1 to 4
\* of resetHalt() or in detect() leaves the halt race unattempted.  In the halt
\* race a failed write is not followed by the read of that attempt, and after
\* a failed write or read the control is back at the loop, which goes on to
\* the next attempt while haltRetries is not 0 and ends only when it is 0.
C8_FailureEndsAllButRaceAttempts ==
    /\ \A i \in 1..Len(trace) :
          trace[i].out = "transport" =>
              /\ i = Len(trace)
              /\ pc = "idle"
              /\ ret[trace[i].fn] = "false"
              /\ ret[top] = "false"
              /\ trace[i].fn \in {"detect", "resetHalt"} =>
                    (attempts = 0 /\ initMemPortCalls = 0)
    /\ (lastAttempt.wrote /\ ~lastAttempt.wok) => ~lastAttempt.read
    /\ (/\ ret["resetHalt"] = "none"
        /\ lastAttempt.wrote
        /\ ~lastAttempt.wok \/ (lastAttempt.read /\ ~lastAttempt.rok)) =>
          /\ pc \in {"rh_loop", "rh_finish"}
          /\ pc = "rh_finish" => haltRetries = 0
          /\ haltRetries # 0 => ENABLED resetHalt_haltWrite

\* after a failed data-register access, the third attempt of the race has
\* written the halt request and is about to read the data register
C8_Witness ==
    /\ raceFailures
    /\ attempts = 3
    /\ pc = "rh_read"
    /\ lastAttempt.wok

\* the accesses of peripheralInit(), in order
PeripheralInitPlan ==
    << [kind |-> "memStore", reg |-> "REG_SIM_SCGC5"],
       [kind |-> "memStore", reg |-> "REG_SIM_SCGC6"],
       [kind |-> "memStoreAndVerify", reg |-> "0x20000000", num |-> 826366247],
       [kind |-> "memStoreAndVerify", reg |-> "0x20000000", num |-> 1985229328] >>

\* C9: the accesses of peripheralInit() are always a prefix of store SCGC5,
\* store SCGC6, store-and-verify 0x31415927 at 0x20000000, store-and-verify
\* 0x76543210 at 0x20000000; a step is issued only after every earlier one
\* succeeded; peripheralInit() has returned exactly when a step failed or all
\* four were issued, with success exactly when all four succeeded.
C9_PeripheralInitSteps ==
    LET p == AccessesOf("peripheralInit") IN
    /\ Len(p) <= 4
    /\ \A i \in 1..Len(p) :
          /\ i <= 4
          /\ p[i].kind = PeripheralInitPlan[i].kind
          /\ p[i].reg = PeripheralInitPlan[i].reg
          /\ i >= 3 => p[i].num = PeripheralInitPlan[i].num
          /\ i < Len(p) => p[i].ok
    /\ (ret["peripheralInit"] # "none") = (Len(p) > 0 /\ (Len(p) = 4 \/ ~p[Len(p)].ok))
    /\ (ret["peripheralInit"] = "true") = (Len(p) = 4 /\ \A i \in 1..Len(p) : p[i].ok)
    /\ (Len(p) > 0 /\ ~p[Len(p)].ok) => (ret["peripheralInit"] = "false" /\ pc = "idle")

\* peripheralInit() has returned failure: the second round trip read back a
\* different value after the first succeeded
C9_Witness ==
    LET p == AccessesOf("peripheralInit") IN
    /\ Len(p) = 4
    /\ p[3].ok
    /\ p[4].out = "mismatch"
    /\ ret["peripheralInit"] = "false"

\* the diagnostic of the first unmet precondition of the Status value s
FirstUnmet(s) ==
    CASE "FLASH_READY" \notin s -> "FLASH: Flash controller not ready before mass erase"
      [] "FLASH_READY" \in s /\ "FLASH_ERASE_ACK" \in s -> "FLASH: Mass erase already in progress"
      [] "FLASH_READY" \in s /\ "FLASH_ERASE_ACK" \notin s /\ "MASS_ERASE_ENABLE" \notin s ->
            "FLASH: Mass erase is disabled!"
      [] OTHER -> "none"

\* C10: right after the initial Status read of flashMassErase(), if the read
\* failed the operation has returned failure and logged nothing; if the value
\* has flash-ready clear, or else erase-acknowledge set, or else
\* mass-erase-enable clear, it has returned failure and logged the diagnostic
\* of that first unmet precondition alone; in both cases the read is the only
\* access issued (no Control write, no poll).  Otherwise it proceeds.
C10_EraseRefusal ==
    LET f == AccessesOf("flashMassErase") IN
    (top = "flashMassErase" /\ Len(f) = 1) =>
        /\ f[1].kind = "apRead"
        /\ f[1].reg = "REG_MDM_STATUS"
        /\ ~f[1].ok =>
              /\ pc = "idle"
              /\ ret["flashMassErase"] = "false"
              /\ logs = <<>>
        /\ (f[1].ok /\ FirstUnmet(status) # "none") =>
              /\ pc = "idle"
              /\ ret["flashMassErase"] = "false"
              /\ Len(logs) = 1
              /\ logs[1].level = "LOG_ERROR"
              /\ logs[1].msg = FirstUnmet(status)
        /\ (f[1].ok /\ FirstUnmet(status) = "none") =>
              /\ pc = "fme_erase"
              /\ ret["flashMassErase"] = "none"

\* flashMassErase() has refused a Status value with flash-ready clear and
\* erase-acknowledge set, logging the not-ready diagnostic
C10_Witness ==
    /\ top = "flashMassErase"
    /\ Len(trace) = 1
    /\ trace[1].ok
    /\ status = {"FLASH_ERASE_ACK", "MASS_ERASE_ENABLE"}
    /\ ret["flashMassErase"] = "false"
    /\ Len(logs) = 1
    /\ logs[1].msg = MSG_NOT_READY_BEFORE

\* the accesses of flashMassErase() in this invocation
EraseAccesses == AccessesOf("flashMassErase")

\* the messages flashMassErase() has logged at LOG_ERROR
EraseErrors == SelectSeq(logs, LAMBDA l : l.fn = "flashMassErase" /\ l.level = "LOG_ERROR")

\* C11: when the initial Status value lets the erase proceed, the next access
\* of flashMassErase() is a write of Control with hold-reset and mass-erase
\* both set; it is the only write of the invocation, no write of Control sets
\* one of the two bits alone, and every poll comes after it.
C11_SingleEraseRequest ==
    LET f == EraseAccesses IN
    /\ (top = "flashMassErase" /\ Len(f) = 1 /\ f[1].ok /\ FirstUnmet(status) = "none")
          => (pc = "fme_erase" /\ ENABLED flashMassErase_request)
    /\ Len(f) >= 2 =>
          /\ f[2].kind = "apWrite"
          /\ f[2].reg = "REG_MDM_CONTROL"
          /\ f[2].bits = {"CORE_HOLD_RESET", "MASS_ERASE"}
    /\ \A i \in 1..Len(f) :
          /\ f[i].kind = "apWrite" => i = 2
          /\ f[i].kind = "apReadPoll" => (i > 2 /\ f[2].ok)

\* the erase was requested by the one write and the erase-acknowledge poll
\* has been issued after it
C11_Witness ==
    /\ top = "flashMassErase"
    /\ Len(EraseAccesses) = 3
    /\ EraseAccesses[2].ok
    /\ EraseAccesses[2].bits = {"CORE_HOLD_RESET", "MASS_ERASE"}
    /\ EraseAccesses[3].kind = "apReadPoll"

\* C12: when the poll of Status for erase-acknowledge times out,
\* flashMassErase() has returned failure with the failed-to-begin diagnostic
\* as its only error, and the poll is its last access: neither the poll of
\* Control nor the final Status read is issued.
C12_NoCompletionPollAfterBeginTimeout ==
    LET f == EraseAccesses IN
    \A i \in 1..Len(f) :
        (f[i].kind = "apReadPoll" /\ f[i].reg = "REG_MDM_STATUS" /\ f[i].out = "timeout") =>
            /\ i = 3
            /\ Len(f) = 3
            /\ pc = "idle"
            /\ ret["flashMassErase"] = "false"
            /\ Len(EraseErrors) = 1
            /\ EraseErrors[1].msg = "FLASH: Timed out waiting for mass erase to begin"
            /\ \A j \in 1..Len(f) : ~(f[j].kind = "apReadPoll" /\ f[j].reg = "REG_MDM_CONTROL")

\* the erase-acknowledge poll has timed out with the bit clear
C12_Witness ==
    /\ top = "flashMassErase"
    /\ Len(EraseAccesses) = 3
    /\ EraseAccesses[3].out = "timeout"
    /\ "FLASH_ERASE_ACK" \notin status
    /\ ret["flashMassErase"] = "false"

\* C13: flashMassErase() has returned success only with its five accesses
\* issued and successful in the order Status read, Control write, poll of
\* Status for erase-acknowledge set, poll of Control for mass-erase clear,
\* Status read, the last read showing flash-ready set; when the last read
\* fails or shows flash-ready clear it has returned failure.
C13_SuccessNeedsReadyAfterErase ==
    LET f == EraseAccesses IN
    /\ ret["flashMassErase"] = "true" =>
          /\ Len(f) = 5
          /\ \A i \in 1..5 : f[i].ok
          /\ f[3].kind = "apReadPoll" /\ f[3].reg = "REG_MDM_STATUS"
          /\ f[3].bits = {"FLASH_ERASE_ACK"} /\ f[3].expect \cap f[3].bits = {"FLASH_ERASE_ACK"}
          /\ f[4].kind = "apReadPoll" /\ f[4].reg = "REG_MDM_CONTROL"
          /\ f[4].bits = {"MASS_ERASE"} /\ f[4].expect \cap f[4].bits = {}
          /\ f[5].kind = "apRead" /\ f[5].reg = "REG_MDM_STATUS"
          /\ "FLASH_READY" \in status
    /\ (Len(f) = 5 /\ (~f[5].ok \/ "FLASH_READY" \notin status)) =>
          (pc = "idle" /\ ret["flashMassErase"] = "false")
    /\ Len(f) = 5 => (f[3].ok /\ f[4].ok)

\* the erase began and completed, and the final Status read showed flash-ready
\* clear: flashMassErase() has returned failure
C13_Witness ==
    /\ top = "flashMassErase"
    /\ Len(EraseAccesses) = 5
    /\ EraseAccesses[5].ok
    /\ "FLASH_READY" \notin status
    /\ ret["flashMassErase"] = "false"

\* the six diagnostics of a failing flashMassErase()
EraseDiagnostics ==
    {MSG_NOT_READY_BEFORE, MSG_IN_PROGRESS, MSG_DISABLED,
     MSG_BEGIN_TIMEOUT, MSG_COMPLETE_TIMEOUT, MSG_NOT_READY_AFTER}

\* C14: a timeout of the erase-acknowledge poll logs the failed-to-begin
\* message, a timeout of the Control poll the failed-to-complete message and
\* flash-ready clear in the final Status read the not-ready-after message;
\* these three and the three refusal messages are six different messages, and
\* an invocation logs at most one error, one of the six.
C14_FailureFamiliesDistinct ==
    LET f == EraseAccesses IN
    /\ Cardinality(EraseDiagnostics) = 6
    /\ Len(EraseErrors) <= 1
    /\ \A i \in 1..Len(EraseErrors) : EraseErrors[i].msg \in EraseDiagnostics
    /\ Len(EraseErrors) = 1 => ret["flashMassErase"] = "false"
    /\ (Len(f) = 3 /\ f[3].out = "timeout") =>
          (Len(EraseErrors) = 1 /\ EraseErrors[1].msg = MSG_BEGIN_TIMEOUT)
    /\ (Len(f) = 4 /\ f[4].out = "timeout") =>
          (Len(EraseErrors) = 1 /\ EraseErrors[1].msg = MSG_COMPLETE_TIMEOUT)
    /\ (Len(f) = 5 /\ f[5].ok /\ "FLASH_READY" \notin status) =>
          (Len(EraseErrors) = 1 /\ EraseErrors[1].msg = MSG_NOT_READY_AFTER)

\* the poll of Control has timed out after the erase began
C14_Witness ==
    /\ top = "flashMassErase"
    /\ Len(EraseAccesses) = 4
    /\ EraseAccesses[3].ok
    /\ EraseAccesses[4].out = "timeout"
    /\ Len(EraseErrors) = 1
    /\ EraseErrors[1].msg = MSG_COMPLETE_TIMEOUT

\* C15: when a poll of phase 1, 2 or 3 of resetHalt() has timed out,
\* resetHalt() has logged an error for it, with a message that is not the one
\* of the halt race or of the two erase polls.
C15_ResetTimeoutsIdentified ==
    \A i \in 1..Len(trace) :
        (trace[i].fn = "resetHalt" /\ trace[i].kind = "apReadPoll"
         /\ trace[i].out = "timeout") =>
            \E j \in 1..Len(logs) :
                /\ logs[j].fn = "resetHalt"
                /\ logs[j].level = "LOG_ERROR"
                /\ logs[j].msg \notin {MSG_HALT_FAILED, MSG_BEGIN_TIMEOUT, MSG_COMPLETE_TIMEOUT}

\* the three bits the safe-state poll waits for
SafeStateBits == {"SYS_NRESET", "FLASH_READY", "SYS_SECURITY"}

\* C16: resetHalt() writes CSW or TAR, or accesses the data register, only
\* after the safe-state poll succeeded, and the Status value that poll left
\* has the reset-line bit and the flash-ready bit set and the security bit
\* clear; a safe-state poll that ended on a value with the security bit set
\* has failed, and resetHalt() has returned failure with it as last access.
C16_MemoryAccessNeedsSafeState ==
    LET r == ResetHaltSetup IN
    /\ (Len(r) >= 7 \/ attempts > 0
        \/ pc \in {"rh_csw", "rh_tar", "rh_mute", "rh_loop", "rh_read", "rh_finish"}) =>
          /\ r[6].ok
          /\ r[6].kind = "apReadPoll"
          /\ r[6].reg = "REG_MDM_STATUS"
          /\ "SYS_NRESET" \in status
          /\ "FLASH_READY" \in status
          /\ "SYS_SECURITY" \notin status
    /\ (Len(r) = 6 /\ r[6].out # "transport" /\ "SYS_SECURITY" \in status) =>
          /\ r[6].out = "timeout"
          /\ pc = "idle"
          /\ ret["resetHalt"] = "false"
          /\ attempts = 0

\* the safe-state poll has timed out on a Status value out of reset, flash
\* ready, with the security bit set
C16_Witness ==
    /\ Len(ResetHaltSetup) = 6
    /\ ResetHaltSetup[6].out = "timeout"
    /\ status \cap SafeStateBits = SafeStateBits
    /\ ret["resetHalt"] = "false"

\* the latest attempt read the data register back with bit 17 set
LastReadHalted ==
    /\ lastAttempt.read
    /\ lastAttempt.rok
    /\ (lastAttempt.rval[1] \div 2) % 2 = 1

\* what holds of the halt race in every state: the attempts made and those
\* left add up to 200; an attempt writes the data register once and reads it
\* at most once, after a successful write; the race is left on the attempt
\* that reads the halted bit, and otherwise only after 200 attempts
HaltRaceBounded ==
    /\ attempts <= 200
    /\ pc \in {"rh_loop", "rh_read", "rh_finish"} => attempts + haltRetries = 200
    /\ pc = "rh_read" => (lastAttempt.wrote /\ lastAttempt.wok /\ ~lastAttempt.read)
    /\ lastAttempt.read => (lastAttempt.wrote /\ lastAttempt.wok)
    /\ attempts > 0 => lastAttempt.wrote
    /\ pc \in {"rh_loop", "rh_read"} => ~LastReadHalted
    /\ (attempts > 0 /\ (pc = "rh_finish" \/ ret["resetHalt"] # "none")) =>
          (LastReadHalted \/ attempts = 200)

\* C17: the halt race is bounded as HaltRaceBounded says, and resetHalt(),
\* once called, returns.
C17_HaltRaceTerminates ==
    /\ []HaltRaceBounded
    /\ (pc \in ResetHaltPositions) ~> (ret["resetHalt"] # "none")

\* the race has ended after 200 attempts whose every write failed
C17_Witness ==
    /\ ret["resetHalt"] = "false"
    /\ attempts = 200
    /\ ~dhcsrRead
    /\ ~lastAttempt.wok

\* C18: the DHCSR value of the halt-failure diagnostic was read from the data
\* register in this invocation, and is the value of the latest successful
\* read-back.
C18_DiagnosticValueWasRead ==
    \A j \in 1..Len(logs) :
        logs[j].msg = MSG_HALT_FAILED =>
            /\ dhcsrRead
            /\ lastAttempt.rok => logs[j].arg = lastAttempt.rval

EraseControlWrites ==
    SelectSeq(EraseAccesses, LAMBDA a : a.kind = "apWrite" /\ a.reg = "REG_MDM_CONTROL")

\* C20: flashMassErase() writes Control at most once in an invocation, with
\* hold-reset set; every access after the erase request is a read or a poll,
\* so that on return the one write of Control is still the request and the
\* hold-reset it asked for has not been released.
C20_ControlWrittenOnce ==
    LET f == EraseAccesses IN
    /\ Len(EraseControlWrites) <= 1
    /\ \A i \in 1..Len(EraseControlWrites) : "CORE_HOLD_RESET" \in EraseControlWrites[i].bits
    /\ \A i \in 1..Len(f) : i > 2 => f[i].kind \in {"apRead", "apReadPoll"}
    /\ (ret["flashMassErase"] # "none" /\ Len(f) >= 2) =>
          /\ Len(EraseControlWrites) = 1
          /\ EraseControlWrites[1] = f[2]
          /\ EraseControlWrites[1].bits = {"CORE_HOLD_RESET", "MASS_ERASE"}

\* flashMassErase() has returned success: five accesses, one write of Control
C20_Witness ==
    /\ top = "flashMassErase"
    /\ ret["flashMassErase"] = "true"
    /\ Len(EraseAccesses) = 5
    /\ Len(EraseControlWrites) = 1

====
